---- MODULE Spec2Model ----
(***************************************************************************)
(* Model of src/server.js: the image route with its validation and five    *)
(* stats middlewares, the five stats read endpoints and the stats reset.   *)
(*                                                                         *)
(* JavaScript values are tagged records:                                   *)
(*   undefined  [t |-> "undefined"]                                        *)
(*   string     [t |-> "string", s |-> "..."]                              *)
(*   number     [t |-> "number", nan |-> BOOLEAN, x2 |-> twice the value]  *)
(* Numbers are kept in halves so that 1.5 and 2000.5 are representable.    *)
(***************************************************************************)
EXTENDS Integers, Sequences, FiniteSets, TLC

VARIABLES recentPaths, recentSizes, recentTexts, topSizes, topReferrers,
          inheritedN, inflight, last, accepted, turn

vars == <<recentPaths, recentSizes, recentTexts, topSizes, topReferrers,
          inheritedN, inflight, last, accepted, turn>>

store == <<recentPaths, recentSizes, recentTexts, topSizes, topReferrers>>

(***************************************************************************)
(* Program constants and model bounds.                                     *)
(***************************************************************************)
SizeLimit == 2000

RecentLimit == 10

TopLimit == 10

MaxReq == 2

MaxInflight == 2

MaxLoad == 15

MaxMore == 3

(***************************************************************************)
(* JavaScript values.                                                      *)
(***************************************************************************)
Undef == [t |-> "undefined"]

S(s) == [t |-> "string", s |-> s]

Num(i) == [t |-> "number", nan |-> FALSE, x2 |-> 2 * i]

Half(h) == [t |-> "number", nan |-> FALSE, x2 |-> h]

NaN == [t |-> "number", nan |-> TRUE, x2 |-> 0]

\* The decimal literals that route parameters of the load requests use.
Decimals == 0 .. MaxLoad + 1

\* Number(s) for a string s, as unary plus computes it.
StringToNumber(s) ==
    CASE s = ""       -> Num(0)
      [] s = "0"      -> Num(0)
      [] s = "1"      -> Num(1)
      [] s = "01"     -> Num(1)
      [] s = "2"      -> Num(2)
      [] s = "02"     -> Num(2)
      [] s = "-1"     -> Num(0 - 1)
      [] s = "1.5"    -> Half(3)
      [] s = "2000"   -> Num(2000)
      [] s = "2001"   -> Num(2001)
      [] s = "2000.5" -> Half(4001)
      [] OTHER        -> IF \E k \in Decimals : ToString(k) = s
                         THEN Num(CHOOSE k \in Decimals : ToString(k) = s)
                         ELSE NaN

\* Unary plus.
ToNumber(v) ==
    CASE v.t = "undefined" -> NaN
      [] v.t = "string"    -> StringToNumber(v.s)
      [] v.t = "number"    -> v

\* ToBoolean.
Truthy(v) ==
    CASE v.t = "undefined" -> FALSE
      [] v.t = "string"    -> v.s # ""
      [] v.t = "number"    -> ~v.nan /\ v.x2 # 0

\* a > k for a number a and an integer literal k.
GreaterThan(a, k) == ~a.nan /\ a.x2 > 2 * k

IsInteger(a) == ~a.nan /\ a.x2 % 2 = 0

\* a === b on numbers.
NumEq(a, b) == ~a.nan /\ ~b.nan /\ a.x2 = b.x2

\* String(a) for a number, as a template literal formats it.
NumberToString(a) ==
    IF a.nan THEN "NaN"
    ELSE LET m == IF a.x2 < 0 THEN 0 - a.x2 ELSE a.x2
             sign == IF a.x2 < 0 THEN "-" ELSE ""
         IN  sign \o ToString(m \div 2) \o (IF m % 2 = 1 THEN ".5" ELSE "")

\* String(v) for the values a query may hold.
ValueToString(v) ==
    CASE v.t = "undefined" -> "undefined"
      [] v.t = "string"    -> v.s
      [] v.t = "number"    -> NumberToString(v)

\* encodeURIComponent on the strings of the model: letters and digits are
\* kept, a space becomes %20 and a plus sign %2B.
EncodeURIComponent(s) ==
    CASE s = " " -> "%20"
      [] s = "+" -> "%2B"
      [] OTHER   -> s

(***************************************************************************)
(* validateInputs.  A request r is a record                                *)
(*   [width, height : route parameter strings,                             *)
(*    square, text  : query values, referer : header value].               *)
(***************************************************************************)

\* Mutant of NormalizeText: the plus sign is passed through.
NormalizeTextNone(text) == text

\* const text = req.query.text === '+' ? ' ' : req.query.text
NormalizeText(text) == IF text = S("+") THEN S(" ") ELSE text

\* Mutant of SquareInScope: an empty square is taken as absent.
SquareInScopeTruthy(square) == Truthy(square)

\* if (square || square === '') : the square takes part in the checks
SquareInScope(square) == Truthy(square) \/ square = S("")

\* let square: the coerced number when in scope, else the raw query value
CoerceSquare(square) ==
    IF SquareInScope(square) THEN ToNumber(square) ELSE square

Dimensions(r) ==
    LET base == <<ToNumber(S(r.width)), ToNumber(S(r.height))>>
    IN  IF SquareInScope(r.square)
        THEN Append(base, ToNumber(r.square))
        ELSE base

\* Mutant of IsTooBig: only width and height are compared with the limit.
IsTooBigWidthHeight(dims) == \E i \in {1, 2} : GreaterThan(dims[i], SizeLimit)

\* dimensions.some(size => size > 2000)
IsTooBig(dims) == \E i \in DOMAIN dims : GreaterThan(dims[i], SizeLimit)

\* Mutant of IsValid: the integer test is left out.
IsValidPositive(dims) == \A i \in DOMAIN dims : GreaterThan(dims[i], 0)

\* dimensions.every(size => size > 0 && Number.isInteger(size))
IsValid(dims) ==
    \A i \in DOMAIN dims : GreaterThan(dims[i], 0) /\ IsInteger(dims[i])

NoLocals == [params |-> [width |-> NaN, height |-> NaN],
             queries |-> [square |-> Undef, text |-> Undef]]

\* The outcome of validateInputs: the status sent (0 when next() is called
\* and nothing is sent yet) and res.locals.
validateInputs(r) ==
    LET dims == Dimensions(r)
    IN  IF IsTooBig(dims)
        THEN [status |-> 403, locals |-> NoLocals]
        ELSE IF ~IsValid(dims)
        THEN [status |-> 400, locals |-> NoLocals]
        ELSE [status |-> 0,
              locals |-> [params  |-> [width  |-> ToNumber(S(r.width)),
                                       height |-> ToNumber(S(r.height))],
                          queries |-> [square |-> CoerceSquare(r.square),
                                       text   |-> NormalizeText(r.text)]]]

(***************************************************************************)
(* Array helpers.                                                          *)
(***************************************************************************)

\* Mutant of Unshift: the entry is pushed at the back.
UnshiftAtBack(arr, x) == arr \o <<x>>

\* arr.unshift(x)
Unshift(arr, x) == <<x>> \o arr

\* Mutant of Slice: one entry too many is kept.
SliceOneMore(arr, n) == SubSeq(arr, 1, IF Len(arr) < n + 1 THEN Len(arr) ELSE n + 1)

\* arr.slice(0, n)
Slice(arr, n) == SubSeq(arr, 1, IF Len(arr) < n THEN Len(arr) ELSE n)

RECURSIVE KeepIndexes(_, _, _)
\* arr.filter((x, i) => i in keep), scanning from index i
KeepIndexes(arr, keep, i) ==
    IF i > Len(arr) THEN <<>>
    ELSE (IF i \in keep THEN <<arr[i]>> ELSE <<>>) \o KeepIndexes(arr, keep, i + 1)

\* Mutant of SetSpread: the array is copied with its duplicates.
SetSpreadKeepAll(arr) == arr

\* [...new Set(arr)] : the first occurrence of every value, in order
SetSpread(arr) ==
    KeepIndexes(arr, {i \in DOMAIN arr : \A j \in 1 .. i - 1 : arr[j] # arr[i]}, 1)

\* size.w === sizes.w && size.h === sizes.h
SameSize(a, b) == NumEq(a.w, b.w) /\ NumEq(a.h, b.h)

\* arr.findIndex(size => SameSize(size, x)); 0 stands for "not found"
FindIndexSize(arr, x) ==
    IF \E i \in DOMAIN arr : SameSize(arr[i], x)
    THEN CHOOSE i \in DOMAIN arr :
            SameSize(arr[i], x) /\ \A j \in 1 .. i - 1 : ~SameSize(arr[j], x)
    ELSE 0

\* arr.filter((sizes, i) => i === arr.findIndex(...))
UniqueSizes(arr) ==
    KeepIndexes(arr, {i \in DOMAIN arr : i = FindIndexSize(arr, arr[i])}, 1)

RECURSIVE Join(_, _)
\* arr.join(sep)
Join(arr, sep) ==
    IF arr = <<>> THEN ""
    ELSE IF Len(arr) = 1 THEN arr[1]
    ELSE arr[1] \o sep \o Join(Tail(arr), sep)

(***************************************************************************)
(* The five stats middlewares, as functions of the collection they read    *)
(* and of the request's validated locals.                                  *)
(***************************************************************************)
\* req.path of the route /img/:width/:height
ReqPath(r) == "/img/" \o r.width \o "/" \o r.height

\* Mutant of QueriesStr: the text pair is written before the square pair.
QueriesStrTextFirst(queries) ==
    LET pair(k) == k \o "=" \o EncodeURIComponent(ValueToString(queries[k]))
        kept == (IF Truthy(queries.text) THEN <<pair("text")>> ELSE <<>>)
                \o (IF Truthy(queries.square) THEN <<pair("square")>> ELSE <<>>)
    IN  Join(kept, "&")

\* Object.keys(queries).filter(k => queries[k]).map(k => k=enc(v)).join('&')
QueriesStr(queries) ==
    LET pair(k) == k \o "=" \o EncodeURIComponent(ValueToString(queries[k]))
        kept == (IF Truthy(queries.square) THEN <<pair("square")>> ELSE <<>>)
                \o (IF Truthy(queries.text) THEN <<pair("text")>> ELSE <<>>)
    IN  Join(kept, "&")

RecordedUrl(path, queries) ==
    LET queriesStr == QueriesStr(queries)
        questionMark == IF queriesStr # "" THEN "?" ELSE ""
    IN  path \o questionMark \o queriesStr

applyRecentPaths(paths, path, locals) ==
    Slice(SetSpread(Unshift(paths, RecordedUrl(path, locals.queries))), RecentLimit)

\* Mutant of applyRecentSizes: the list is cut to its limit before the
\* duplicates are removed.
applyRecentSizesCutFirst(sizes, locals) ==
    UniqueSizes(Slice(Unshift(sizes, [w |-> locals.params.width,
                                      h |-> locals.params.height]),
                      RecentLimit))


applyRecentSizes(sizes, locals) ==
    Slice(UniqueSizes(Unshift(sizes, [w |-> locals.params.width,
                                      h |-> locals.params.height])),
          RecentLimit)

\* Mutant of applyRecentTexts: every defined text is pushed, the empty one too.
applyRecentTextsDefined(texts, locals) ==
    LET text == locals.queries.text
        pushed == IF text # Undef THEN Unshift(texts, text.s) ELSE texts
    IN  Slice(SetSpread(pushed), RecentLimit)


applyRecentTexts(texts, locals) ==
    LET text == locals.queries.text
        pushed == IF Truthy(text) THEN Unshift(texts, text.s) ELSE texts
    IN  Slice(SetSpread(pushed), RecentLimit)

\* Mutant of SizeKey: the key is made of the width alone.
SizeKeyWidthOnly(params) == NumberToString(params.width)

\* `${width}x${height}`
SizeKey(params) ==
    NumberToString(params.width) \o "x" \o NumberToString(params.height)

\* A table is the sequence of its own properties in insertion order.
HasOwn(table, key) == \E i \in DOMAIN table : table[i].key = key

\* Mutant of Increment: every record of the table is counted up.
IncrementAll(table, key) ==
    [i \in DOMAIN table |-> [table[i] EXCEPT !.val.n = @ + 1]]

\* table[key].n += 1 on an own property
Increment(table, key) ==
    [i \in DOMAIN table |->
        IF table[i].key = key
        THEN [table[i] EXCEPT !.val.n = @ + 1]
        ELSE table[i]]

\* Mutant of applyTopSizes: a size is counted only when its record is created.
applyTopSizesOnce(table, locals) ==
    IF ~HasOwn(table, SizeKey(locals.params))
    THEN Append(table, [key |-> SizeKey(locals.params),
                        val |-> [w |-> locals.params.width,
                                 h |-> locals.params.height,
                                 n |-> 1]])
    ELSE table


applyTopSizes(table, locals) ==
    LET sizeKey == SizeKey(locals.params)
        created == IF ~HasOwn(table, sizeKey)
                   THEN Append(table, [key |-> sizeKey,
                                       val |-> [w |-> locals.params.width,
                                                h |-> locals.params.height,
                                                n |-> 0]])
                   ELSE table
    IN  Increment(created, sizeKey)

\* Property names every plain object inherits from Object.prototype with a
\* truthy value.
InheritedKeys == {"constructor", "toString", "valueOf", "hasOwnProperty"}

\* !topReferrers[referrerKey] : neither an own nor an inherited property
LooksAbsent(table, key) == ~HasOwn(table, key) /\ key \notin InheritedKeys

applyTopReferrers(table, referer) ==
    IF Truthy(referer)
    THEN LET created == IF LooksAbsent(table, referer.s)
                        THEN Append(table, [key |-> referer.s,
                                            val |-> [ref |-> referer.s, n |-> 0]])
                        ELSE table
         IN  Increment(created, referer.s)
    ELSE table

\* topReferrers[key].n += 1 when the key resolves to an inherited function:
\* the function object gets n = undefined + 1 = NaN.
applyInheritedN(hit, table, referer) ==
    IF Truthy(referer) /\ ~HasOwn(table, referer.s) /\ referer.s \in InheritedKeys
    THEN hit \cup {referer.s}
    ELSE hit

(***************************************************************************)
(* Top lists.                                                              *)
(***************************************************************************)
\* Object.values(table), in property order
ObjectValues(table) == [i \in DOMAIN table |-> table[i].val]

RECURSIVE InsertByCountAscending(_, _)
\* Mutant of InsertByCount: the comparator is a.n - b.n.
InsertByCountAscending(x, sorted) ==
    IF sorted = <<>> THEN <<x>>
    ELSE IF Head(sorted).n < x.n
         THEN <<Head(sorted)>> \o InsertByCountAscending(x, Tail(sorted))
         ELSE <<x>> \o sorted

RECURSIVE InsertByCount(_, _)
\* x placed before the first record whose n is not greater than x.n
InsertByCount(x, sorted) ==
    IF sorted = <<>> THEN <<x>>
    ELSE IF Head(sorted).n > x.n
         THEN <<Head(sorted)>> \o InsertByCount(x, Tail(sorted))
         ELSE <<x>> \o sorted

RECURSIVE SortByCount(_)
\* arr.sort((a, b) => b.n - a.n) : stable, descending n
SortByCount(arr) ==
    IF arr = <<>> THEN <<>>
    ELSE InsertByCount(Head(arr), SortByCount(Tail(arr)))

\* Object.values(table).sort(...).slice(0, 10)
TopList(table) == Slice(SortByCount(ObjectValues(table)), TopLimit)

(***************************************************************************)
(* State.                                                                  *)
(*   recentPaths .. topReferrers  app.locals                               *)
(*   inheritedN   inherited functions that were given an n property        *)
(*   inflight     image requests awaiting imager.sendImage                 *)
(*   last         the handler that ran last: its request, the status it    *)
(*                sent (0: none yet), the JSON body, the Imager arguments   *)
(*   accepted     sizes of the requests that passed validation since the   *)
(*                last reset, oldest first                                 *)
(*   turn         the image request whose middlewares are on the call      *)
(*                stack: the middleware to run next (0: the stack is       *)
(*                empty), the request, res.locals and the collections as   *)
(*                they were when the request was dispatched                *)
(***************************************************************************)
NoReq == [width |-> "", height |-> "", square |-> Undef, text |-> Undef,
          referer |-> Undef]

Response(op, req, status, body, call) ==
    [op |-> op, req |-> req, status |-> status, body |-> body, call |-> call]

Idle == [stage |-> 0, req |-> NoReq, locals |-> NoLocals, pre |-> <<>>]

\* Mutant of CanDispatch: handlers are dispatched while the middlewares of a
\* request are still running, as if every middleware awaited before next().
CanDispatchAnytime == TRUE

\* Run to completion: the event loop dispatches a handler only when the call
\* stack is empty; the only await of the image route is in serveImage.
CanDispatch == turn.stage = 0

Init ==
    /\ recentPaths = <<>>
    /\ recentSizes = <<>>
    /\ recentTexts = <<>>
    /\ topSizes = <<>>
    /\ topReferrers = <<>>
    /\ inheritedN = {}
    /\ inflight = 0
    /\ last = Response("listen", NoReq, 0, <<>>, <<>>)
    /\ accepted = <<>>
    /\ turn = Idle

\* GET /img/:width/:height : validateInputs, the five stats middlewares and
\* serveImage up to its await, in one turn of the event loop.
ImgRequest(r) ==
    /\ CanDispatch
    /\ inflight < MaxInflight
    /\ UNCHANGED turn
    /\ LET v == validateInputs(r)
           locals == v.locals
       IN  IF v.status # 0
           THEN /\ last' = Response("img", r, v.status, <<>>, <<>>)
                /\ UNCHANGED <<recentPaths, recentSizes, recentTexts, topSizes,
                               topReferrers, inheritedN, inflight, accepted>>
           ELSE /\ recentPaths' = applyRecentPaths(recentPaths, ReqPath(r), locals)
                /\ recentSizes' = applyRecentSizes(recentSizes, locals)
                /\ recentTexts' = applyRecentTexts(recentTexts, locals)
                /\ topSizes' = applyTopSizes(topSizes, locals)
                /\ topReferrers' = applyTopReferrers(topReferrers, r.referer)
                /\ inheritedN' = applyInheritedN(inheritedN, topReferrers, r.referer)
                /\ inflight' = inflight + 1
                /\ accepted' = Append(accepted, [w |-> locals.params.width,
                                                 h |-> locals.params.height])
                /\ last' = Response("img", r, 0, <<>>,
                                    <<locals.params.width, locals.params.height,
                                      locals.queries.square, locals.queries.text>>)

\* imager.sendImage resolves: the image has been written to the response.
ImagerDone ==
    /\ CanDispatch
    /\ inflight > 0
    /\ UNCHANGED turn
    /\ inflight' = inflight - 1
    /\ last' = Response("imgDone", NoReq, 200, <<>>, <<>>)
    /\ UNCHANGED <<recentPaths, recentSizes, recentTexts, topSizes,
                   topReferrers, inheritedN, accepted>>

\* Mutant of ImagerFail: the rejected call is made again instead of answered.
ImagerFailRetry ==
    /\ CanDispatch
    /\ inflight > 0
    /\ UNCHANGED turn
    /\ last' = Response("imgFail", NoReq, 0, <<>>, <<Undef, Undef, Undef, Undef>>)
    /\ UNCHANGED <<recentPaths, recentSizes, recentTexts, topSizes,
                   topReferrers, inheritedN, inflight, accepted>>

\* imager.sendImage rejects: catch (err) { error(res, 500, err) }
ImagerFail ==
    /\ CanDispatch
    /\ inflight > 0
    /\ UNCHANGED turn
    /\ inflight' = inflight - 1
    /\ last' = Response("imgFail", NoReq, 500, <<>>, <<>>)
    /\ UNCHANGED <<recentPaths, recentSizes, recentTexts, topSizes,
                   topReferrers, inheritedN, accepted>>

Serve(op, body) ==
    /\ CanDispatch
    /\ UNCHANGED turn
    /\ last' = Response(op, NoReq, 200, body, <<>>)
    /\ UNCHANGED <<recentPaths, recentSizes, recentTexts, topSizes,
                   topReferrers, inheritedN, inflight, accepted>>

serveRecentPaths == Serve("recentPaths", recentPaths)

serveRecentSizes == Serve("recentSizes", recentSizes)

serveRecentTexts == Serve("recentTexts", recentTexts)

serveTopSizes == Serve("topSizes", TopList(topSizes))

serveTopReferrers == Serve("topReferrers", TopList(topReferrers))

\* Mutant of resetStats: the referrer table is not replaced.
resetStatsKeepReferrers ==
    /\ recentPaths' = <<>>
    /\ recentSizes' = <<>>
    /\ recentTexts' = <<>>
    /\ topSizes' = <<>>
    /\ accepted' = <<>>
    /\ last' = Response("reset", NoReq, 200, <<>>, <<>>)
    /\ UNCHANGED <<topReferrers, inheritedN, inflight, turn>>

\* Mutant of resetStats: the size table is not replaced.
resetStatsKeepTopSizes ==
    /\ CanDispatch
    /\ recentPaths' = <<>>
    /\ recentSizes' = <<>>
    /\ recentTexts' = <<>>
    /\ topReferrers' = <<>>
    /\ accepted' = <<>>
    /\ last' = Response("reset", NoReq, 200, <<>>, <<>>)
    /\ UNCHANGED <<topSizes, inheritedN, inflight, turn>>


resetStats ==
    /\ CanDispatch
    /\ recentPaths' = <<>>
    /\ recentSizes' = <<>>
    /\ recentTexts' = <<>>
    /\ topSizes' = <<>>
    /\ topReferrers' = <<>>
    /\ accepted' = <<>>
    /\ last' = Response("reset", NoReq, 200, <<>>, <<>>)
    /\ UNCHANGED <<inheritedN, inflight, turn>>

(***************************************************************************)
(* Requests of the specifications.                                         *)
(***************************************************************************)
Widths == {"1", "01", "2001", "0", "abc"}

Heights == {"1", "2000", "1.5", "2000.5", "-1"}

Squares == {Undef, S(""), S("2"), S("2001")}

Texts == {Undef, S(""), S("+"), S("a")}

Referers == {Undef, S(""), S("r"), S("constructor")}

Base == [width |-> "1", height |-> "1", square |-> Undef, text |-> Undef,
         referer |-> Undef]

\* Requests that vary the route parameters, the query or the header.
Catalogue ==
    {[Base EXCEPT !.width = w, !.height = h] : w \in Widths, h \in Heights}
    \cup {[Base EXCEPT !.square = q, !.text = x] : q \in Squares, x \in Texts}
    \cup {[Base EXCEPT !.referer = f] : f \in Referers}

Requests == IF Len(accepted) < MaxReq THEN Catalogue ELSE {}

Next ==
    \/ \E r \in Requests : ImgRequest(r)
    \/ ImagerDone
    \/ ImagerFail
    \/ serveRecentPaths
    \/ serveRecentSizes
    \/ serveRecentTexts
    \/ serveTopSizes
    \/ serveTopReferrers
    \/ resetStats

Spec == Init /\ [][Next]_vars

(***************************************************************************)
(* Load: long runs of plain requests, to fill the lists past their limit.  *)
(* The k-th load request asks for size k x 1 with its own text and         *)
(* referrer.  Up to the last MaxMore requests a run follows one of two     *)
(* scripts (sizes 1, 2, 3, ... or the same size 1 again and again); the    *)
(* last MaxMore requests are chosen among the first size, the size         *)
(* requested RecentLimit requests ago, the size of the previous index and  *)
(* a fresh size.                                                           *)
(***************************************************************************)
LoadReq(k) ==
    [width |-> ToString(k), height |-> "1", square |-> Undef,
     text |-> S("t" \o ToString(k)), referer |-> S("r" \o ToString(k))]

IsRamp(hist) == \A i \in DOMAIN hist : hist[i].w = Num(i)

IsConstant(hist) == \A i \in DOMAIN hist : hist[i].w = Num(1)

LoadWidths ==
    LET n == Len(accepted)
    IN  IF n >= MaxLoad THEN {}
        ELSE IF n < MaxLoad - MaxMore
        THEN (IF IsRamp(accepted) THEN {n + 1} ELSE {})
             \cup (IF IsConstant(accepted) THEN {1} ELSE {})
        ELSE {k \in {1, n - RecentLimit + 1, n, n + 1} : k >= 1}

LoadRequests == {LoadReq(k) : k \in LoadWidths}

NextLoad ==
    \/ \E r \in LoadRequests : ImgRequest(r)
    \/ ImagerDone
    \/ ImagerFail
    \/ serveRecentPaths
    \/ serveRecentSizes
    \/ serveRecentTexts
    \/ serveTopSizes
    \/ serveTopReferrers
    \/ resetStats

SpecLoad == Init /\ [][NextLoad]_vars

(***************************************************************************)
(* Paths: requests for one size that differ in the spelling of the width   *)
(* and in their query: square absent, "2" or "02", text absent, empty,     *)
(* "+" (sent as %2B), " " (sent as + or %20) or "a".                       *)
(***************************************************************************)
PathCatalogue ==
    {[Base EXCEPT !.width = w, !.square = q, !.text = x] :
        w \in {"1", "01"},
        q \in {Undef, S("2"), S("02")},
        x \in {Undef, S(""), S("+"), S(" "), S("a")}}

PathRequests == IF Len(accepted) < MaxReq THEN PathCatalogue ELSE {}

NextPaths ==
    \/ \E r \in PathRequests : ImgRequest(r)
    \/ ImagerDone
    \/ ImagerFail
    \/ serveRecentPaths
    \/ serveRecentSizes
    \/ serveRecentTexts
    \/ serveTopSizes
    \/ serveTopReferrers
    \/ resetStats

SpecPaths == Init /\ [][NextPaths]_vars

(***************************************************************************)
(* Turns: the image route middleware by middleware.  Each middleware is a  *)
(* step; next() is a synchronous call, so the request stays on the call    *)
(* stack from validateInputs to the await in serveImage.                   *)
(***************************************************************************)
Stage(n) == turn.stage = n

Continue == [turn EXCEPT !.stage = @ + 1]

\* validateInputs, dispatched for request r
StepValidate(r) ==
    /\ CanDispatch
    /\ inflight < MaxInflight
    /\ LET v == validateInputs(r)
       IN  IF v.status # 0
           THEN /\ last' = Response("img", r, v.status, <<>>, <<>>)
                /\ UNCHANGED turn
           ELSE /\ turn' = [stage |-> 2, req |-> r, locals |-> v.locals, pre |-> store]
                /\ UNCHANGED last
    /\ UNCHANGED <<recentPaths, recentSizes, recentTexts, topSizes,
                   topReferrers, inheritedN, inflight, accepted>>

StepRecentPaths ==
    /\ Stage(2)
    /\ recentPaths' = applyRecentPaths(recentPaths, ReqPath(turn.req), turn.locals)
    /\ turn' = Continue
    /\ UNCHANGED <<recentSizes, recentTexts, topSizes, topReferrers,
                   inheritedN, inflight, last, accepted>>

StepRecentSizes ==
    /\ Stage(3)
    /\ recentSizes' = applyRecentSizes(recentSizes, turn.locals)
    /\ turn' = Continue
    /\ UNCHANGED <<recentPaths, recentTexts, topSizes, topReferrers,
                   inheritedN, inflight, last, accepted>>

\* Mutant of StepRecentTexts: the stage also rewrites the recent-paths list.
StepRecentTextsAndPaths ==
    /\ Stage(4)
    /\ recentTexts' = applyRecentTexts(recentTexts, turn.locals)
    /\ recentPaths' = Slice(recentPaths, Len(recentTexts'))
    /\ turn' = Continue
    /\ UNCHANGED <<recentSizes, topSizes, topReferrers,
                   inheritedN, inflight, last, accepted>>


StepRecentTexts ==
    /\ Stage(4)
    /\ recentTexts' = applyRecentTexts(recentTexts, turn.locals)
    /\ turn' = Continue
    /\ UNCHANGED <<recentPaths, recentSizes, topSizes, topReferrers,
                   inheritedN, inflight, last, accepted>>

StepTopSizes ==
    /\ Stage(5)
    /\ topSizes' = applyTopSizes(topSizes, turn.locals)
    /\ turn' = Continue
    /\ UNCHANGED <<recentPaths, recentSizes, recentTexts, topReferrers,
                   inheritedN, inflight, last, accepted>>

StepTopReferrers ==
    /\ Stage(6)
    /\ topReferrers' = applyTopReferrers(topReferrers, turn.req.referer)
    /\ inheritedN' = applyInheritedN(inheritedN, topReferrers, turn.req.referer)
    /\ turn' = Continue
    /\ UNCHANGED <<recentPaths, recentSizes, recentTexts, topSizes,
                   inflight, last, accepted>>

\* serveImage up to its await: the Imager is called and the stack unwinds
StepServeImage ==
    /\ Stage(7)
    /\ inflight' = inflight + 1
    /\ accepted' = Append(accepted, [w |-> turn.locals.params.width,
                                     h |-> turn.locals.params.height])
    /\ last' = Response("img", turn.req, 0, <<>>,
                        <<turn.locals.params.width, turn.locals.params.height,
                          turn.locals.queries.square, turn.locals.queries.text>>)
    /\ turn' = Idle
    /\ UNCHANGED <<recentPaths, recentSizes, recentTexts, topSizes,
                   topReferrers, inheritedN>>

\* The requests of the turns: one that touches every collection, the plain
\* one and one that validation refuses.
TurnCatalogue ==
    {[width |-> "1", height |-> "2000", square |-> S("2"), text |-> S("a"),
      referer |-> S("r")],
     Base,
     [Base EXCEPT !.width = "2001"]}

TurnRequests == IF Len(accepted) < MaxReq THEN TurnCatalogue ELSE {}

NextTurns ==
    \/ \E r \in TurnRequests : StepValidate(r)
    \/ StepRecentPaths
    \/ StepRecentSizes
    \/ StepRecentTexts
    \/ StepTopSizes
    \/ StepTopReferrers
    \/ StepServeImage
    \/ ImagerDone
    \/ ImagerFail
    \/ serveRecentPaths
    \/ serveRecentSizes
    \/ serveRecentTexts
    \/ serveTopSizes
    \/ serveTopReferrers
    \/ resetStats

SpecTurns == Init /\ [][NextTurns]_vars

(***************************************************************************)
(* Vocabulary of the properties.                                           *)
(***************************************************************************)
Range(seq) == {seq[i] : i \in DOMAIN seq}

NoDuplicates(seq) == \A i, j \in DOMAIN seq : i # j => seq[i] # seq[j]

StoreEmpty ==
    /\ recentPaths = <<>> /\ recentSizes = <<>> /\ recentTexts = <<>>
    /\ topSizes = <<>> /\ topReferrers = <<>>

\* The in-scope dimensions of a request as numbers: width, height, and the
\* square when the query has one.
InScope(req) ==
    {ToNumber(S(req.width)), ToNumber(S(req.height))}
    \cup (IF req.square = Undef THEN {} ELSE {ToNumber(req.square)})

Over(a) == ~a.nan /\ a.x2 > 2 * 2000

PositiveInteger(a) == ~a.nan /\ a.x2 % 2 = 0 /\ a.x2 >= 2

InRange(a) == PositiveInteger(a) /\ ~Over(a)

\* The step is the handling of an image request (any other handler leaves
\* another op in last).
ImgStep == last'.op = "img"

\* The request of the step passed validation: the stats middlewares ran and
\* the Imager was called.
Passed ==
    /\ last'.status = 0
    /\ last'.call # <<>>
    /\ inflight' = inflight + 1
    /\ accepted' # accepted
    /\ topSizes' # topSizes

Rejected(status) ==
    /\ last'.status = status
    /\ last'.call = <<>>
    /\ inflight' = inflight
    /\ store' = store

(***************************************************************************)
(* C1: in every reachable state each of recent-paths, recent-sizes and     *)
(* recent-texts has at most 10 entries and no duplicates (sizes compared   *)
(* by their (w,h) pair, paths and texts as strings); so has every body a   *)
(* recent read endpoint serves.                                            *)
(***************************************************************************)
C1_RecentBoundedUnique ==
    /\ \A list \in {recentPaths, recentTexts} :
          Len(list) <= 10 /\ NoDuplicates(list)
    /\ Len(recentSizes) <= 10
    /\ \A i, j \in DOMAIN recentSizes :
          i # j => <<recentSizes[i].w, recentSizes[i].h>>
                   # <<recentSizes[j].w, recentSizes[j].h>>
    /\ last.op \in {"recentPaths", "recentSizes", "recentTexts"}
          => Len(last.body) <= 10 /\ NoDuplicates(last.body)

\* More than 10 distinct sizes were requested, one of them twice, and all
\* three lists are full.
C1_Witness ==
    /\ Cardinality(Range(accepted)) > 10
    /\ Cardinality(Range(accepted)) < Len(accepted)
    /\ Len(recentPaths) = 10 /\ Len(recentSizes) = 10 /\ Len(recentTexts) = 10
    /\ last.op = "recentSizes"

(***************************************************************************)
(* C3: an image request with an in-scope dimension over 2000 is answered   *)
(* 403, changes none of the five collections and does not call the Imager. *)
(***************************************************************************)
C3_TooBigRejected ==
    [][(ImgStep /\ \E d \in InScope(last'.req) : Over(d)) => Rejected(403)]_vars

\* A too big request was answered 403 while the collections held records.
C3_Witness ==
    /\ last.op = "img"
    /\ \E d \in InScope(last.req) : Over(d)
    /\ last.status = 403
    /\ recentSizes # <<>> /\ topReferrers # <<>>

(***************************************************************************)
(* C4, as claimed: an image request with a non-integer or non-positive     *)
(* in-scope dimension is answered 400 and changes no collection.           *)
(***************************************************************************)
C4_Original ==
    [][(ImgStep /\ \E d \in InScope(last'.req) : ~PositiveInteger(d))
          => Rejected(400)]_vars

(***************************************************************************)
(* C4, amended: an image request with a non-integer or non-positive        *)
(* in-scope dimension and no in-scope dimension over 2000 is answered 400  *)
(* and changes no collection.                                              *)
(***************************************************************************)
C4_InvalidRejected ==
    [][(/\ ImgStep
        /\ \E d \in InScope(last'.req) : ~PositiveInteger(d)
        /\ \A d \in InScope(last'.req) : ~Over(d)) => Rejected(400)]_vars

\* A request with a fractional height was answered 400 while the collections
\* held records.
C4_Witness ==
    /\ last.op = "img"
    /\ last.req.height = "1.5"
    /\ last.status = 400
    /\ recentSizes # <<>> /\ topReferrers # <<>>

(***************************************************************************)
(* C5: an image request passes validation exactly when width, height and   *)
(* the square, when present, are integers in 1..2000; a square present     *)
(* with an empty value counts as 0 and makes the request fail.             *)
(***************************************************************************)
C5_PassesIffInRange ==
    [][ImgStep =>
          /\ Passed <=> \A d \in InScope(last'.req) : InRange(d)
          /\ ~Passed <=> (Rejected(400) \/ Rejected(403))
          /\ last'.req.square = S("") => Rejected(400) \/ Rejected(403)]_vars

\* A request with an empty square was refused after another one had passed.
C5_Witness ==
    /\ last.op = "img"
    /\ last.req.square = S("")
    /\ InRange(ToNumber(S(last.req.width))) /\ InRange(ToNumber(S(last.req.height)))
    /\ last.status = 400
    /\ accepted # <<>>

(***************************************************************************)
(* C2: recent-sizes is the list of the distinct sizes accepted since the   *)
(* last reset, ordered by last occurrence, most recent first, cut to its   *)
(* first 10 entries; after 15 accepted requests with 15 distinct sizes it  *)
(* holds the 10 most recent ones, newest first.                            *)
(***************************************************************************)
LastIndex(hist, x) ==
    CHOOSE i \in DOMAIN hist :
        hist[i] = x /\ \A j \in DOMAIN hist : j > i => hist[j] # x

\* The distinct sizes of hist requested again after the last request for x.
Newer(hist, x) ==
    {y \in Range(hist) : LastIndex(hist, y) > LastIndex(hist, x)}

C2_RecentSizesByLastOccurrence ==
    /\ Len(recentSizes) =
          (IF Cardinality(Range(accepted)) < 10
           THEN Cardinality(Range(accepted)) ELSE 10)
    /\ \A i \in DOMAIN recentSizes :
          /\ recentSizes[i] \in Range(accepted)
          /\ Cardinality(Newer(accepted, recentSizes[i])) = i - 1
    /\ (Len(accepted) = 15 /\ Cardinality(Range(accepted)) = 15)
          => /\ Len(recentSizes) = 10
             /\ \A i \in 1 .. 10 : recentSizes[i] = accepted[16 - i]

\* 15 requests with 15 distinct sizes were accepted.
C2_Witness ==
    /\ Len(accepted) = 15
    /\ Cardinality(Range(accepted)) = 15
    /\ Len(recentSizes) = 10

(***************************************************************************)
(* C6, as claimed: an image request whose width and height are integers in *)
(* 1..2000 passes validation and leaves {w: width, h: height} at index 0   *)
(* of recent-sizes.                                                        *)
(***************************************************************************)
RequestedSize(req) ==
    [w |-> ToNumber(S(req.width)), h |-> ToNumber(S(req.height))]

SizeInRange(req) ==
    InRange(ToNumber(S(req.width))) /\ InRange(ToNumber(S(req.height)))

C6_Original ==
    [][(ImgStep /\ SizeInRange(last'.req))
          => /\ Passed
             /\ recentSizes' # <<>>
             /\ recentSizes'[1] = RequestedSize(last'.req)]_vars

(***************************************************************************)
(* C6, amended: an image request whose width, height and square, when the  *)
(* query has one, are integers in 1..2000 passes validation and leaves     *)
(* {w: width, h: height} at index 0 of recent-sizes.                       *)
(***************************************************************************)
C6_ValidSizeRecordedFirst ==
    [][(ImgStep /\ \A d \in InScope(last'.req) : InRange(d))
          => /\ Passed
             /\ recentSizes' # <<>>
             /\ recentSizes'[1] = RequestedSize(last'.req)]_vars

\* A square request was accepted after a request for another size, and its
\* size is first in recent-sizes.
C6_Witness ==
    /\ last.op = "img"
    /\ last.status = 0
    /\ last.req.square = S("2")
    /\ Len(recentSizes) = 2
    /\ recentSizes[1] = RequestedSize(last.req)

(***************************************************************************)
(* C7: the same accepted size requested k times in a row from a reset      *)
(* store leaves exactly one entry for it in recent-sizes while its         *)
(* top-sizes record, under the key "{width}x{height}", has n = k.          *)
(***************************************************************************)
SameSizeRun ==
    accepted # <<>> /\ \A i \in DOMAIN accepted : accepted[i] = accepted[1]

C7_RepeatedSizeCountedOnceListed ==
    SameSizeRun =>
        LET size == accepted[1]
            key == NumberToString(size.w) \o "x" \o NumberToString(size.h)
        IN  /\ Cardinality({i \in DOMAIN recentSizes :
                               recentSizes[i].w = size.w /\ recentSizes[i].h = size.h}) = 1
            /\ \E i \in DOMAIN topSizes :
                  /\ topSizes[i].key = key
                  /\ topSizes[i].val = [w |-> size.w, h |-> size.h, n |-> Len(accepted)]

\* The same size was requested five times in a row.
C7_Witness == SameSizeRun /\ Len(accepted) = 5 /\ Len(recentSizes) = 1

(***************************************************************************)
(* C8: DELETE /stats replaces all five collections with empty values in    *)
(* one step and answers 200; a stats read served after it and before the   *)
(* next accepted image request returns an empty array.                     *)
(***************************************************************************)
ReadOps == {"recentPaths", "recentSizes", "recentTexts", "topSizes", "topReferrers"}

C8_ResetEmptiesAll ==
    /\ []((accepted = <<>> /\ last.op \in ReadOps)
            => last.status = 200 /\ last.body = <<>>)
    /\ [][last'.op = "reset" => StoreEmpty' /\ last'.status = 200]_vars

\* The referrer list is read after a reset that came while a request that
\* had been counted was still awaiting the Imager.
C8_Witness ==
    /\ last.op = "topReferrers"
    /\ last.body = <<>>
    /\ accepted = <<>>
    /\ inflight > 0

(***************************************************************************)
(* C9: the top-sizes and top-referrers reads return at most 10 records of  *)
(* the table, ordered by non-increasing n, and no record left out has a    *)
(* greater n than a record returned; the read changes no collection.       *)
(***************************************************************************)
Records(table) == {table[i].val : i \in DOMAIN table}

Ranked(body, table) ==
    /\ Len(body) <= 10
    /\ Range(body) \subseteq Records(table)
    /\ \A i, j \in DOMAIN body : i < j => body[i].n >= body[j].n
    /\ \A out \in Records(table) \ Range(body) :
          \A in \in Range(body) : out.n <= in.n

C9_TopListsRanked ==
    /\ [](/\ last.op = "topSizes" => Ranked(last.body, topSizes)
          /\ last.op = "topReferrers" => Ranked(last.body, topReferrers))
    /\ [][last'.op \in {"topSizes", "topReferrers"}
            => store' = store /\ last'.status = 200]_vars

\* More than 10 sizes are counted, with different counts, and the top list
\* has been read.
C9_Witness ==
    /\ last.op = "topSizes"
    /\ Len(topSizes) > 10
    /\ Len(last.body) = 10
    /\ last.body[1].n > last.body[10].n
    /\ topSizes[1].val.n < last.body[1].n

(***************************************************************************)
(* C10: every top-sizes record has n >= 1; short of a reset no count       *)
(* decreases; an accepted image request raises the count of the key        *)
(* "{width}x{height}" by exactly 1, creating {w, h, n: 1} when absent, and *)
(* leaves every other size record as it was.                               *)
(***************************************************************************)
CountOf(table, key) ==
    LET at == {i \in DOMAIN table : table[i].key = key}
    IN  IF at = {} THEN 0 ELSE table[CHOOSE i \in at : TRUE].val.n

Keys(table) == {table[i].key : i \in DOMAIN table}

RequestedKey(req) ==
    NumberToString(ToNumber(S(req.width))) \o "x"
        \o NumberToString(ToNumber(S(req.height)))

C10_TopSizesCounts ==
    /\ [](\A i \in DOMAIN topSizes : topSizes[i].val.n >= 1)
    /\ [][/\ last'.op # "reset" =>
                \A k \in Keys(topSizes) : CountOf(topSizes', k) >= CountOf(topSizes, k)
          /\ (ImgStep /\ last'.status = 0) =>
                LET key == RequestedKey(last'.req)
                IN  /\ CountOf(topSizes', key) = CountOf(topSizes, key) + 1
                    /\ \E i \in DOMAIN topSizes' :
                          /\ topSizes'[i].key = key
                          /\ topSizes'[i].val.w = ToNumber(S(last'.req.width))
                          /\ topSizes'[i].val.h = ToNumber(S(last'.req.height))
                    /\ Keys(topSizes') = Keys(topSizes) \cup {key}
                    /\ Len(topSizes') = Cardinality(Keys(topSizes'))
                    /\ \A i \in DOMAIN topSizes :
                          topSizes[i].key # key => topSizes[i] \in Range(topSizes')]_vars

\* A size already counted is requested again while other sizes are counted.
C10_Witness ==
    /\ last.op = "img"
    /\ last.status = 0
    /\ CountOf(topSizes, RequestedKey(last.req)) >= 2
    /\ Len(topSizes) >= 3

(***************************************************************************)
(* C11: an accepted image request without a referrer header leaves the     *)
(* top-referrers table unchanged; with a (non-empty) referrer header the   *)
(* table afterwards holds a record {ref, n} under the raw header string    *)
(* with n one greater than before (1 for a new key), and the records of    *)
(* the other referrers are unchanged.                                      *)
(***************************************************************************)
C11_ReferrerCounted ==
    [][(ImgStep /\ last'.status = 0) =>
          LET referer == last'.req.referer
          IN  IF referer = Undef \/ referer = S("")
              THEN topReferrers' = topReferrers
              ELSE /\ CountOf(topReferrers', referer.s)
                        = CountOf(topReferrers, referer.s) + 1
                   /\ \E i \in DOMAIN topReferrers' :
                         /\ topReferrers'[i].key = referer.s
                         /\ topReferrers'[i].val.ref = referer.s
                   /\ \A i \in DOMAIN topReferrers :
                         topReferrers[i].key # referer.s
                            => topReferrers[i] \in Range(topReferrers')]_vars

(***************************************************************************)
(* C12: a text query value "+" is turned into a single space before it is  *)
(* recorded and passed on: an accepted request with text "+" leaves " "    *)
(* at index 0 of recent-texts and hands " " to the Imager; any other text  *)
(* is handed to the Imager as it is and, when recorded, recorded as it is. *)
(***************************************************************************)
C12_PlusBecomesSpace ==
    [][(ImgStep /\ last'.status = 0) =>
          LET text == last'.req.text
          IN  IF text = S("+")
              THEN /\ recentTexts' # <<>>
                   /\ recentTexts'[1] = " "
                   /\ "+" \notin Range(recentTexts')
                   /\ last'.call[4] = S(" ")
              ELSE /\ last'.call[4] = text
                   /\ recentTexts' # recentTexts
                         => text # Undef /\ recentTexts'[1] = text.s]_vars

\* A request with text "+" was accepted after one with another text.
C12_Witness ==
    /\ last.op = "img"
    /\ last.status = 0
    /\ last.req.text = S("+")
    /\ recentTexts = <<" ", "a">>

(***************************************************************************)
(* C13: an accepted image request with an absent or empty text leaves      *)
(* recent-texts as it was, one with a non-empty text leaves that text (as  *)
(* validated) at index 0, and recent-texts never holds an empty string.    *)
(***************************************************************************)
C13_TextRecordedWhenNonEmpty ==
    /\ []("" \notin Range(recentTexts))
    /\ [][(ImgStep /\ last'.status = 0) =>
            LET text == last'.req.text
            IN  IF text = Undef \/ text = S("")
                THEN recentTexts' = recentTexts
                ELSE /\ recentTexts' # <<>>
                     /\ recentTexts'[1] = (IF text.s = "+" THEN " " ELSE text.s)]_vars

\* A request with an empty text was accepted while a text was listed.
C13_Witness ==
    /\ last.op = "img"
    /\ last.status = 0
    /\ last.req.text = S("")
    /\ recentTexts # <<>>

(***************************************************************************)
(* The store a request must show while its middlewares run: the            *)
(* collections of the stages that have run are the stage applied to the    *)
(* collection as it was at dispatch, the others are as they were.          *)
(***************************************************************************)
StoreAtStage(n, t) ==
    <<IF n > 2 THEN applyRecentPaths(t.pre[1], ReqPath(t.req), t.locals) ELSE t.pre[1],
      IF n > 3 THEN applyRecentSizes(t.pre[2], t.locals) ELSE t.pre[2],
      IF n > 4 THEN applyRecentTexts(t.pre[3], t.locals) ELSE t.pre[3],
      IF n > 5 THEN applyTopSizes(t.pre[4], t.locals) ELSE t.pre[4],
      IF n > 6 THEN applyTopReferrers(t.pre[5], t.req.referer) ELSE t.pre[5]>>

(***************************************************************************)
(* C14: with image requests awaiting the Imager, validation and the five   *)
(* stats stages of a request run as one uninterrupted step: once a request *)
(* has passed validation, every step up to its Imager call is the next     *)
(* stage of that same request, the store holds that request's effects on   *)
(* the store it was dispatched on and nothing else, and every read, reset  *)
(* and Imager completion is handled between requests, never between the    *)
(* stages of one.                                                          *)
(***************************************************************************)
C14_StagesUninterrupted ==
    /\ [](turn.stage # 0 => /\ turn.stage \in 2..7
                            /\ store = StoreAtStage(turn.stage, turn))
    /\ [][turn.stage # 0 =>
            /\ turn'.stage = (IF turn.stage = 7 THEN 0 ELSE turn.stage + 1)
            /\ turn.stage < 7 =>
                  /\ turn'.req = turn.req
                  /\ turn'.pre = turn.pre
                  /\ <<last, inflight, accepted>>' = <<last, inflight, accepted>>
            /\ turn.stage = 7 =>
                  /\ last'.op = "img"
                  /\ last'.req = turn.req
                  /\ store' = StoreAtStage(7, turn)]_vars
    /\ [][last'.op \in ReadOps \cup {"reset", "imgDone", "imgFail"} /\ last' # last
            => turn.stage = 0 /\ turn'.stage = 0]_vars

\* A second request has run all its stages and called the Imager while the
\* first one is still awaiting it.
C14_Witness ==
    /\ turn.stage = 0
    /\ inflight = 2
    /\ last.op = "img"
    /\ last.status = 0
    /\ Len(recentPaths) = 2
    /\ Len(topSizes) = 2

(***************************************************************************)
(* C15: when the Imager call of a validated request fails, the handler     *)
(* answers 500, makes no further Imager call (the request stops awaiting   *)
(* it) and changes none of the five collections: the stats written by the  *)
(* request's stages stay as they were.                                     *)
(***************************************************************************)
C15_ImagerFailureKeepsStats ==
    [][last'.op = "imgFail" =>
          /\ inflight > 0
          /\ last'.status = 500
          /\ last'.call = <<>>
          /\ inflight' = inflight - 1
          /\ store' = store
          /\ accepted' = accepted
          /\ (last.op = "img" /\ last.status = 0) =>
                /\ recentPaths'[1] = RecordedUrl(ReqPath(last.req),
                                        validateInputs(last.req).locals.queries)
                /\ SameSize(recentSizes'[1], accepted[Len(accepted)])
                /\ CountOf(topSizes', RequestedKey(last.req)) >= 1]_vars

\* The Imager call of the only accepted request failed; its stats are there.
C15_Witness ==
    /\ last.op = "imgFail"
    /\ last.status = 500
    /\ inflight = 0
    /\ Len(accepted) = 1
    /\ Len(recentPaths) = 1
    /\ Len(recentTexts) = 1
    /\ Len(topSizes) = 1

(***************************************************************************)
(* The five stages run in a given order on a store: stage k rewrites the   *)
(* k-th collection of the store it is handed.                              *)
(***************************************************************************)
StageResult(k, st, t) ==
    CASE k = 1 -> applyRecentPaths(st[1], ReqPath(t.req), t.locals)
      [] k = 2 -> applyRecentSizes(st[2], t.locals)
      [] k = 3 -> applyRecentTexts(st[3], t.locals)
      [] k = 4 -> applyTopSizes(st[4], t.locals)
      [] k = 5 -> applyTopReferrers(st[5], t.req.referer)

RECURSIVE RunStages(_, _, _)
RunStages(order, st, t) ==
    IF order = <<>> THEN st
    ELSE RunStages(Tail(order),
                   [st EXCEPT ![Head(order)] = StageResult(Head(order), st, t)], t)

Orders == {o \in [1..5 -> 1..5] : \A i, j \in 1..5 : i # j => o[i] # o[j]}

(***************************************************************************)
(* C16: each stats stage changes its own collection only, to a value       *)
(* computed from that collection and the request, and leaves the other     *)
(* four as they were; so the store a request leaves behind is the one any  *)
(* order of the five stages yields from the store it was dispatched on.    *)
(***************************************************************************)
C16_StagesIndependent ==
    /\ [][turn.stage \in 2..6 =>
            \A k \in 1..5 :
               store'[k] = (IF k = turn.stage - 1
                            THEN StageResult(k, store, turn)
                            ELSE store[k])]_vars
    /\ [](turn.stage = 7 =>
            \A o \in Orders : RunStages(o, turn.pre, turn) = store)

\* Every stage of a request has changed its collection, on a store that an
\* earlier request had written.
C16_Witness ==
    /\ turn.stage = 7
    /\ \A k \in {1, 2, 4} : turn.pre[k] # <<>>
    /\ \A k \in 1..5 : store[k] # turn.pre[k]

(***************************************************************************)
(* C17, as claimed: each of the five stats stages is idempotent: applied   *)
(* once more with the same validated request, a stage leaves its           *)
(* collection as its first application left it.                            *)
(***************************************************************************)
C17_Original ==
    [][(ImgStep /\ last'.status = 0) =>
          LET req == last'.req
              locals == validateInputs(req).locals
          IN  /\ applyRecentPaths(recentPaths', ReqPath(req), locals) = recentPaths'
              /\ applyRecentSizes(recentSizes', locals) = recentSizes'
              /\ applyRecentTexts(recentTexts', locals) = recentTexts'
              /\ applyTopSizes(topSizes', locals) = topSizes'
              /\ applyTopReferrers(topReferrers', req.referer) = topReferrers']_vars

(***************************************************************************)
(* C17, amended: the recent-paths, recent-sizes and recent-texts stages    *)
(* are idempotent; the top-sizes stage is not, a second application        *)
(* raises the count of the request's size by one more; the top-referrers   *)
(* stage changes nothing on either application when the Referer header is  *)
(* absent or empty, and whenever its first application changes the table   *)
(* a second one changes it again.                                          *)
(***************************************************************************)
C17_RecentStagesIdempotent ==
    [][(ImgStep /\ last'.status = 0) =>
          LET req == last'.req
              locals == validateInputs(req).locals
              key == RequestedKey(req)
              sizesTwice == applyTopSizes(topSizes', locals)
              referrersTwice == applyTopReferrers(topReferrers', req.referer)
          IN  /\ applyRecentPaths(recentPaths', ReqPath(req), locals) = recentPaths'
              /\ applyRecentSizes(recentSizes', locals) = recentSizes'
              /\ applyRecentTexts(recentTexts', locals) = recentTexts'
              /\ CountOf(sizesTwice, key) = CountOf(topSizes', key) + 1
              /\ CountOf(topSizes', key) = CountOf(topSizes, key) + 1
              /\ Keys(sizesTwice) = Keys(topSizes')
              /\ (req.referer = Undef \/ req.referer = S(""))
                    => topReferrers' = topReferrers /\ referrersTwice = topReferrers'
              /\ topReferrers' # topReferrers
                    => /\ referrersTwice # topReferrers'
                       /\ CountOf(referrersTwice, req.referer.s)
                             = CountOf(topReferrers, req.referer.s) + 2]_vars

\* A request with a text was accepted after another of the same size.
C17_Witness ==
    /\ last.op = "img"
    /\ last.status = 0
    /\ last.req.text = S("a")
    /\ Len(recentPaths) = 2
    /\ recentTexts = <<"a">>
    /\ CountOf(topSizes, "1x1") = 2

(***************************************************************************)
(* The recorded path a request is expected to leave: the request path,     *)
(* then nothing, ?square=N, ?text=T or ?square=N&text=T, where N and T     *)
(* are the validated square and text, percent-encoded.                     *)
(***************************************************************************)
ExpectedUrl(req) ==
    LET q == validateInputs(req).locals.queries
        hasSquare == q.square # Undef
        hasText == q.text # Undef /\ q.text # S("")
        square == "square=" \o NumberToString(q.square)
        text == "text=" \o (IF q.text = S(" ") THEN "%20" ELSE q.text.s)
    IN  CASE hasSquare /\ hasText   -> ReqPath(req) \o "?" \o square \o "&" \o text
          [] hasSquare /\ ~hasText  -> ReqPath(req) \o "?" \o square
          [] ~hasSquare /\ hasText  -> ReqPath(req) \o "?" \o text
          [] OTHER                  -> ReqPath(req)

\* Two accepted image requests in a row: last.req, then last'.req.
TwoAccepted ==
    /\ last.op = "img"
    /\ last.status = 0
    /\ last'.op = "img"
    /\ last'.status = 0
    /\ accepted' # accepted

SameWidthHeight(a, b) == SameSize(RequestedSize(a), RequestedSize(b))

\* The query values the recorded path is built from: the square as a
\* number, the text after the "+" replacement, an empty text as none.
UsedQueries(req) ==
    LET q == validateInputs(req).locals.queries
    IN  <<q.square, IF Truthy(q.text) THEN q.text ELSE Undef>>

(***************************************************************************)
(* C18, as claimed: of two accepted requests with the same width and       *)
(* height, a square or a text that is defined in both and differs gives    *)
(* one recent-sizes entry and two distinct recent-paths entries; the same  *)
(* request path, square and text give one recent-paths entry; the recorded *)
(* path is the request path followed by ?square=..&text=.. for the values  *)
(* that are defined and non-empty.                                         *)
(***************************************************************************)
C18_Original ==
    [][TwoAccepted =>
          LET a == last.req
              b == last'.req
              differ == \/ a.square # Undef /\ b.square # Undef /\ a.square # b.square
                        \/ a.text # Undef /\ b.text # Undef /\ a.text # b.text
          IN  /\ (SameWidthHeight(a, b) /\ differ)
                    => /\ recentSizes' = recentSizes
                       /\ recentPaths'[1] # recentPaths[1]
                       /\ recentPaths'[2] = recentPaths[1]
              /\ (ReqPath(a) = ReqPath(b) /\ a.square = b.square /\ a.text = b.text)
                    => recentPaths' = recentPaths
              /\ recentPaths'[1] = ExpectedUrl(b)]_vars

(***************************************************************************)
(* C18, amended: two accepted requests in a row with the same width and    *)
(* height leave one recent-sizes entry whatever their square and text;     *)
(* they leave one recent-paths entry exactly when they have the same       *)
(* request path and the same validated square and text (the square as a    *)
(* number, the text after "+" became " ", an empty text as none), and two  *)
(* distinct entries otherwise; the recorded path is the request path       *)
(* followed by ?square=..&text=.. for the validated values that are        *)
(* defined and non-empty.                                                  *)
(***************************************************************************)
C18_PathsByValidatedQuery ==
    [][TwoAccepted =>
          LET a == last.req
              b == last'.req
              same == ReqPath(a) = ReqPath(b) /\ UsedQueries(a) = UsedQueries(b)
          IN  /\ SameWidthHeight(a, b) => recentSizes' = recentSizes
              /\ same => recentPaths' = recentPaths
              /\ ~same => /\ recentPaths'[1] # recentPaths[1]
                          /\ recentPaths'[2] = recentPaths[1]
              /\ recentPaths'[1] = ExpectedUrl(b)]_vars

\* Two requests of one size and path, the texts "+" and " ", both with a
\* square: one size, one recorded path.
C18_Witness ==
    /\ last.op = "img"
    /\ last.status = 0
    /\ Len(accepted) = 2
    /\ last.req.text = S(" ")
    /\ last.req.square = S("02")
    /\ recentSizes = <<[w |-> Num(1), h |-> Num(1)]>>
    /\ recentPaths = <<"/img/1/1?square=2&text=%20">>
    /\ recentTexts = <<" ">>

\* The sum of n over the records of a table.
RECURSIVE SumN(_)
SumN(table) ==
    IF table = <<>> THEN 0 ELSE Head(table).val.n + SumN(Tail(table))

(***************************************************************************)
(* C19: in every state a read endpoint can observe, every recent-sizes     *)
(* entry (w,h) has a top-sizes record with key "{w}x{h}" and n >= 1;       *)
(* recent-paths, recent-sizes and top-sizes are empty together; the n of   *)
(* the top-sizes records add up to the number of image requests accepted   *)
(* since the last reset, and the n of the top-referrers records to no more *)
(* than that.                                                              *)
(***************************************************************************)
C19_CollectionsConsistent ==
    /\ \A i \in DOMAIN recentSizes :
          \E j \in DOMAIN topSizes :
             /\ topSizes[j].key = NumberToString(recentSizes[i].w) \o "x"
                                     \o NumberToString(recentSizes[i].h)
             /\ topSizes[j].val.w = recentSizes[i].w
             /\ topSizes[j].val.h = recentSizes[i].h
             /\ topSizes[j].val.n >= 1
    /\ (recentPaths = <<>>) = (recentSizes = <<>>)
    /\ (recentSizes = <<>>) = (topSizes = <<>>)
    /\ SumN(topSizes) = Len(accepted)
    /\ SumN(topReferrers) <= Len(accepted)

\* A read after two accepted requests of different sizes, one of them with
\* a referrer.
C19_Witness ==
    /\ last.op \in ReadOps
    /\ Len(accepted) = 2
    /\ Len(recentSizes) = 2
    /\ Len(recentPaths) = 2
    /\ SumN(topSizes) = 2
    /\ SumN(topReferrers) = 1

(***************************************************************************)
(* C20: a DELETE /stats handled while an image request awaits the Imager   *)
(* empties the five collections, that request's stats included, and        *)
(* leaves the request awaiting; the completion or the failure of an        *)
(* Imager call changes no collection; so the collections stay empty from   *)
(* the reset until the next image request is accepted.                     *)
(***************************************************************************)
C20_ResetWhileInFlight ==
    /\ [][last'.op = "reset" => StoreEmpty' /\ inflight' = inflight]_vars
    /\ [][last'.op \in {"imgDone", "imgFail"} =>
            /\ inflight > 0
            /\ store' = store
            /\ accepted' = accepted]_vars
    /\ [][(StoreEmpty /\ ~StoreEmpty') =>
            /\ last'.op = "img"
            /\ last'.status = 0
            /\ accepted' = Append(accepted, RequestedSize(last'.req))]_vars
    /\ [](accepted = <<>> => StoreEmpty)

\* The Imager call of a request completed after a reset that was handled
\* while the request was awaiting it; the store is still empty.
C20_Witness ==
    /\ last.op \in {"imgDone", "imgFail"}
    /\ accepted = <<>>
    /\ inflight = 0
    /\ StoreEmpty

====
